---- MODULE Spec2Model ----
(***************************************************************************)
(* Amazon Prime Gaming service of Lutris (lutris/services/amazon.py):     *)
(* login callback / device registration, token expiry and refresh,        *)
(* paginated entitlement sync with the whole-library cache, and load().   *)
(*                                                                         *)
(* Each thread that calls into the service has a position (op, pc) and    *)
(* the locals of the method it is in.  A step runs the code between two   *)
(* blocking calls; the answer of the remote server, the wall clock and    *)
(* the outcome of a database save are inputs chosen by the environment.   *)
(***************************************************************************)
EXTENDS Integers, Sequences, FiniteSets, TLC

\* ---------------------------------------------------------------- bounds
MaxTime == 3      \* the wall clock runs over 1..MaxTime
MaxPages == 3     \* the server serves at most MaxPages pages per fetch

\* ---------------------------------------------------------------- values
\* A JSON field is missing from its object, null, or carries an integer.
Absent == [tag |-> "absent", n |-> 0]
Null == [tag |-> "null", n |-> 0]
Num(n) == [tag |-> "int", n |-> n]

Threads == {"main", "worker"}

None == "None"            \* Python None where the other values are strings
NoCode == "nocode"        \* redirect URL without openid.oa2.authorization_code
Codes == {"c1", "c2"}
Verifiers == {"v1", "v2"}
NextTokens == {"n1", "n2"}
DeviceSerial == "SERIAL"

\* Entitlement records: id and product.title ("absent": the key is missing).
E1 == [id |-> 1, title |-> "Alpha"]
E2 == [id |-> 2, title |-> "Beta"]
EBad == [id |-> 3, title |-> "absent"]
PageSet == {<< >>, <<E1, E2>>, <<EBad>>}
ThreadsPages == {<<E1, E2>>}

\* response.success of /auth/register: tokens + extensions, no obtain time
RegResponses ==
  [access_token : {"a0"}, refresh_token : {"r0", "r1"},
   expires_in : {Absent, Null, Num(0), Num(1)},
   token_obtain_time : {Absent}, serial : {DeviceSerial}]

\* body of a successful /auth/token answer
TokenResponses == [access_token : {"a1"}, expires_in : {Num(0), Num(1)}]

\* a successful GetEntitlementsV2 answer ("absent": no nextToken key)
SdsResponses == [entitlements : PageSet, nextToken : NextTokens \cup {"absent"}]

NoData ==
  [access_token |-> None, refresh_token |-> None, expires_in |-> Absent,
   token_obtain_time |-> Absent, serial |-> None]

NoIO ==
  [register |-> 0, token |-> 0, profile |-> 0, sds |-> 0,
   uread |-> 0, uwrite |-> 0, cwrite |-> 0, save |-> 0, emit |-> 0]

VARIABLES
  userFile,     \* .amazon.user: << >> when missing, <<user_data>> otherwise
  cacheFile,    \* amazon-library.json: << >> when missing, <<list>> otherwise
  is_loading,   \* AmazonService.is_loading
  verifier,     \* AmazonService.verifier (None until a login URL is built)
  client_id,    \* AmazonService.client_id
  serial,       \* AmazonService.serial
  now,          \* time.time()
  catalog,      \* remote account: the pages the sync endpoint may serve
  urls,         \* code challenges of the login URLs handed out (the last two)
  th            \* per thread: operation, position, locals, effects so far

vars == <<userFile, cacheFile, is_loading, verifier, client_id, serial, now, catalog, urls, th>>

IdleThread ==
  [op |-> "idle", pc |-> "idle", code |-> NoCode, user_data |-> NoData,
   access_token |-> None, games |-> << >>, nextToken |-> None,
   sent |-> << >>, recv |-> << >>, served |-> << >>, mapped |-> << >>,
   checked |-> FALSE, io |-> NoIO,
   ret |-> "none", retval |-> << >>, exc |-> "none", note |-> "none"]

Init ==
  /\ userFile = << >>
  /\ cacheFile = << >>
  /\ is_loading = FALSE
  /\ verifier = None
  /\ client_id = None
  /\ serial = None
  /\ now = 1
  /\ catalog = PageSet
  /\ urls = << >>
  /\ th = [t \in Threads |-> IdleThread]

\* ------------------------------------------------------------- helpers
Bump(io, k) == [io EXCEPT ![k] = @ + 1]

\* generate_challange: base64url(sha256(verifier)), kept symbolic
generate_challange(v) == <<"b64", "sha256", v>>

\* generate_client_id: hex of the ASCII bytes of "<serial>#A2UMVHOX7UP4V7"
generate_client_id(s) == <<"hex", s, "#A2UMVHOX7UP4V7">>

\* OnlineService.is_authenticated: every credential file exists
is_authenticated == userFile # << >>

\* str(amazon_game["id"])
Str(n) == CASE n = 1 -> "1" [] n = 2 -> "2" [] OTHER -> "3"

\* AmazonGame.new_from_amazon_game: "KeyError" when product.title is missing
Mappable(g) == g.title # "absent"
new_from_amazon_game(g) == [appid |-> Str(g.id), name |-> g.title, details |-> g]

\* variant: a null or zero field counts as expired
is_token_expired_NoFailOpen(ud, c) ==
  IF ud.token_obtain_time.tag = "absent" \/ ud.expires_in.tag = "absent"
  THEN "KeyError"
  ELSE IF ud.token_obtain_time.tag = "null" \/ ud.token_obtain_time.n = 0
          \/ ud.expires_in.tag = "null" \/ ud.expires_in.n = 0
       THEN "True"
       ELSE IF c > ud.token_obtain_time.n + ud.expires_in.n THEN "True" ELSE "False"

\* is_token_expired on a loaded user_data at clock c:
\* "KeyError" | "False" | "True"
is_token_expired(ud, c) ==
  IF ud.token_obtain_time.tag = "absent" \/ ud.expires_in.tag = "absent"
  THEN "KeyError"
  ELSE IF ud.token_obtain_time.tag = "null" \/ ud.token_obtain_time.n = 0
          \/ ud.expires_in.tag = "null" \/ ud.expires_in.n = 0
       THEN "False"
       ELSE IF c > ud.token_obtain_time.n + ud.expires_in.n THEN "True" ELSE "False"

\* variant: only the saves are inside the try block
InTry_OnlySaves(r) == r.op = "load" /\ r.pc = "save"

\* The try block of load() spans from the call of get_library to the last save.
InTry(r) == r.op = "load" /\ r.pc \in {"gl_cache", "expired", "refresh", "load_user", "sds", "map", "save"}

\* variant: no except clause, every exception leaves load() at once
Raised_Uncaught(r, e) == [r EXCEPT !.pc = "done", !.exc = e, !.note = e]

\* An exception raised at the current position: caught by load()'s bare
\* except (games = None), otherwise it leaves the operation.
Raised(r, e) ==
  IF InTry(r)
  THEN [r EXCEPT !.pc = "ld_finish", !.ret = "None", !.retval = << >>, !.note = e,
                 !.games = << >>, !.nextToken = None, !.access_token = None,
                 !.sent = << >>, !.recv = << >>, !.served = << >>,
                 !.mapped = << >>]
  ELSE [r EXCEPT !.pc = "done", !.exc = e, !.note = e]

\* get_library returns (kind, value): to its caller load(), or to the outside;
\* its locals go with its frame
GlReturn(r, kind, val, why) ==
  [r EXCEPT !.pc = IF r.op = "load" THEN "map" ELSE "done",
            !.ret = kind, !.retval = val, !.note = why,
            !.games = << >>, !.nextToken = None, !.access_token = None]

Start(t, op, pc) ==
  /\ th[t].pc = "idle"
  /\ th' = [th EXCEPT ![t] = [IdleThread EXCEPT !.op = op, !.pc = pc]]

Globals == <<userFile, cacheFile, is_loading, verifier, client_id, serial, now, catalog, urls>>

\* ------------------------------------------------------------- clock
Tick ==
  /\ now < MaxTime
  /\ now' = now + 1
  /\ UNCHANGED <<userFile, cacheFile, is_loading, verifier, client_id, serial, catalog, urls, th>>

\* ------------------------------------------------------------- login
\* the URLs handed out so far, the last two kept
Issued(us, challenge) ==
  IF us = << >> THEN <<challenge>> ELSE <<us[Len(us)], challenge>>

\* variant: a verifier that is already set is kept, the URL still carries
\* the challenge of the newly generated one
LoginUrl_KeepFirst(t) ==
  /\ th[t].pc = "idle"
  /\ \E v \in Verifiers \ {verifier} :
       /\ verifier' = IF verifier = None THEN v ELSE verifier
       /\ urls' = Issued(urls, generate_challange(v))
  /\ serial' = DeviceSerial
  /\ client_id' = generate_client_id(DeviceSerial)
  /\ UNCHANGED <<userFile, cacheFile, is_loading, now, catalog, th>>

\* login_url property: fresh verifier, serial and client id overwrite the
\* instance's fields; the URL carries the challenge of the new verifier.
LoginUrl(t) ==
  /\ th[t].pc = "idle"
  /\ \E v \in Verifiers \ {verifier} :
       /\ verifier' = v
       /\ urls' = Issued(urls, generate_challange(v))
  /\ serial' = DeviceSerial
  /\ client_id' = generate_client_id(DeviceSerial)
  /\ UNCHANGED <<userFile, cacheFile, is_loading, now, catalog, th>>

\* login_callback(url) up to the POST of register_device
LoginCallback(t) ==
  /\ th[t].pc = "idle"
  /\ \E c \in Codes \cup {NoCode} :
       LET r == [IdleThread EXCEPT !.op = "login_callback", !.code = c] IN
       th' = [th EXCEPT ![t] =
                IF c = NoCode
                THEN [r EXCEPT !.pc = "done", !.ret = "None", !.note = "no_code"]
                ELSE IF verifier = None
                     THEN Raised(r, "AttributeError")
                     ELSE [r EXCEPT !.pc = "reg_post",
                                    !.sent = <<[authorization_code |-> c,
                                                code_verifier |-> verifier,
                                                client_id |-> client_id,
                                                device_serial |-> serial]>>]]
  /\ UNCHANGED Globals

\* variant: login_callback goes on after a failed registration
RegisterDevice_NoAbort(t) ==
  /\ th[t].pc = "reg_post"
  /\ \/ th' = [th EXCEPT ![t] = [@ EXCEPT !.pc = "lc_stamp",
                                          !.note = "register_failed",
                                          !.io = Bump(@, "register")]]
     \/ \E resp \in RegResponses :
          th' = [th EXCEPT ![t] = [@ EXCEPT !.pc = "lc_stamp", !.user_data = resp,
                                            !.io = Bump(@, "register")]]
  /\ UNCHANGED Globals

\* register_device: POST /auth/register and the return into login_callback
RegisterDevice(t) ==
  /\ th[t].pc = "reg_post"
  /\ \/ th' = [th EXCEPT ![t] = [@ EXCEPT !.pc = "done", !.ret = "None",
                                          !.note = "register_failed",
                                          !.io = Bump(@, "register")]]
     \/ \E resp \in RegResponses :
          th' = [th EXCEPT ![t] = [@ EXCEPT !.pc = "lc_stamp", !.user_data = resp,
                                            !.io = Bump(@, "register")]]
  /\ UNCHANGED Globals

\* variant: the credential set is saved as the server returned it
LcStamp_Skip(t) ==
  /\ th[t].pc = "lc_stamp"
  /\ th' = [th EXCEPT ![t] = [@ EXCEPT !.pc = "lc_save"]]
  /\ UNCHANGED Globals

\* user_data["token_obtain_time"] = time.time()
LcStamp(t) ==
  /\ th[t].pc = "lc_stamp"
  /\ th' = [th EXCEPT ![t] = [@ EXCEPT !.pc = "lc_save",
                                       !.user_data.token_obtain_time = Num(now)]]
  /\ UNCHANGED Globals

\* self.save_user_data(user_data)
LcSave(t) ==
  /\ th[t].pc = "lc_save"
  /\ userFile' = <<th[t].user_data>>
  /\ th' = [th EXCEPT ![t] = [@ EXCEPT !.pc = "lc_emit", !.io = Bump(@, "uwrite")]]
  /\ UNCHANGED <<cacheFile, is_loading, verifier, client_id, serial, now, catalog, urls>>

\* self.emit("service-login")
LcEmit(t) ==
  /\ th[t].pc = "lc_emit"
  /\ th' = [th EXCEPT ![t] = [@ EXCEPT !.pc = "done", !.ret = "None",
                                       !.note = "logged_in", !.io = Bump(@, "emit")]]
  /\ UNCHANGED Globals

\* ------------------------------------------------------- entry points
IsConnected(t) ==
  /\ th[t].pc = "idle"
  /\ th' = [th EXCEPT ![t] =
              IF ~is_authenticated
              THEN [IdleThread EXCEPT !.op = "is_connected", !.pc = "done",
                                      !.ret = "False", !.note = "not_authenticated"]
              ELSE [IdleThread EXCEPT !.op = "is_connected", !.pc = "expired"]]
  /\ UNCHANGED Globals

GetProfileData(t) ==
  /\ Start(t, "get_profile_data", "expired")
  /\ UNCHANGED Globals

GetLibrary(t) ==
  /\ Start(t, "get_library", "gl_cache")
  /\ UNCHANGED Globals

RefreshToken(t) ==
  /\ Start(t, "refresh_token", "refresh")
  /\ UNCHANGED Globals

\* variant: the guard tests and sets is_loading in one step
Load_TestAndSet(t) ==
  /\ th[t].pc = "idle"
  /\ th' = [th EXCEPT ![t] =
              IF is_loading
              THEN [IdleThread EXCEPT !.op = "load", !.pc = "done",
                                      !.ret = "None", !.note = "already_loading"]
              ELSE IF ~is_authenticated
                   THEN [IdleThread EXCEPT !.op = "load", !.pc = "done",
                                           !.ret = "None", !.note = "not_authenticated"]
                   ELSE [IdleThread EXCEPT !.op = "load", !.pc = "ld_set"]]
  /\ is_loading' = (is_loading \/ is_authenticated)
  /\ UNCHANGED <<userFile, cacheFile, verifier, client_id, serial, now, catalog, urls>>

\* variant: load() without the is_authenticated test
Load_NoAuthCheck(t) ==
  /\ th[t].pc = "idle"
  /\ th' = [th EXCEPT ![t] =
              IF is_loading
              THEN [IdleThread EXCEPT !.op = "load", !.pc = "done",
                                      !.ret = "None", !.note = "already_loading"]
              ELSE [IdleThread EXCEPT !.op = "load", !.pc = "ld_set"]]
  /\ UNCHANGED Globals

\* variant: load() without the is_loading guard
Load_NoGuard(t) ==
  /\ th[t].pc = "idle"
  /\ th' = [th EXCEPT ![t] =
              IF ~is_authenticated
              THEN [IdleThread EXCEPT !.op = "load", !.pc = "done",
                                      !.ret = "None", !.note = "not_authenticated"]
              ELSE [IdleThread EXCEPT !.op = "load", !.pc = "ld_set"]]
  /\ UNCHANGED Globals

\* load(): the two guards
Load(t) ==
  /\ th[t].pc = "idle"
  /\ th' = [th EXCEPT ![t] =
              IF is_loading
              THEN [IdleThread EXCEPT !.op = "load", !.pc = "done",
                                      !.ret = "None", !.note = "already_loading"]
              ELSE IF ~is_authenticated
                   THEN [IdleThread EXCEPT !.op = "load", !.pc = "done",
                                           !.ret = "None", !.note = "not_authenticated"]
                   ELSE [IdleThread EXCEPT !.op = "load", !.pc = "ld_set"]]
  /\ UNCHANGED Globals

\* self.is_loading = True
LoadSet(t) ==
  /\ th[t].pc = "ld_set"
  /\ is_loading' = TRUE
  /\ th' = [th EXCEPT ![t] = [@ EXCEPT !.pc = "gl_cache"]]
  /\ UNCHANGED <<userFile, cacheFile, verifier, client_id, serial, now, catalog, urls>>

\* ------------------------------------------------------- token lifecycle
\* is_token_expired() as called by get_profile_data and get_library
IsTokenExpired(t) ==
  /\ th[t].pc = "expired"
  /\ th' = [th EXCEPT ![t] =
              IF userFile = << >>
              THEN Raised(@, "FileNotFoundError")
              ELSE LET e == is_token_expired(userFile[1], now)
                       r == [@ EXCEPT !.io = Bump(@, "uread"), !.checked = TRUE] IN
                   IF e = "KeyError" THEN Raised(r, "KeyError")
                   ELSE IF e = "True" THEN [r EXCEPT !.pc = "refresh"]
                   ELSE [r EXCEPT !.pc = "load_user"]]
  /\ UNCHANGED Globals

\* variant: the refresh also replaces the stored refresh token
Refreshed_Rotate(ud, resp, c) ==
  [ud EXCEPT !.access_token = resp.access_token,
             !.refresh_token = resp.access_token,
             !.expires_in = resp.expires_in,
             !.token_obtain_time = Num(c)]

\* what refresh_token() stores after a successful answer
Refreshed(ud, resp, c) ==
  [ud EXCEPT !.access_token = resp.access_token,
             !.expires_in = resp.expires_in,
             !.token_obtain_time = Num(c)]

\* variant: a failed refresh aborts the calling operation
AfterRefresh_Abort(r) ==
  IF r.note = "refresh_failed"
  THEN Raised(r, "HTTPError")
  ELSE IF r.op = "refresh_token"
       THEN [r EXCEPT !.pc = "done", !.ret = "None"]
       ELSE [r EXCEPT !.pc = "load_user"]

AfterRefresh(r) ==
  IF r.op = "refresh_token"
  THEN [r EXCEPT !.pc = "done", !.ret = "None"]
  ELSE [r EXCEPT !.pc = "load_user"]

\* refresh_token(): load, POST /auth/token, update and save
Refresh(t) ==
  /\ th[t].pc = "refresh"
  /\ IF userFile = << >>
     THEN /\ th' = [th EXCEPT ![t] = Raised(@, "FileNotFoundError")]
          /\ UNCHANGED userFile
     ELSE \/ /\ th' = [th EXCEPT ![t] =
                         AfterRefresh([@ EXCEPT !.io = Bump(Bump(@, "uread"), "token"),
                                                !.note = "refresh_failed"])]
             /\ UNCHANGED userFile
          \/ \E resp \in TokenResponses :
               /\ userFile' = <<Refreshed(userFile[1], resp, now)>>
               /\ th' = [th EXCEPT ![t] =
                           AfterRefresh([@ EXCEPT
                             !.io = Bump(Bump(Bump(@, "uread"), "token"), "uwrite"),
                             !.user_data = userFile[1], !.recv = <<resp>>,
                             !.note = "refreshed"])]
  /\ UNCHANGED <<cacheFile, is_loading, verifier, client_id, serial, now, catalog, urls>>

\* user_data = self.load_user_data(); access_token = ...; serial = ...
LoadUser(t) ==
  /\ th[t].pc = "load_user"
  /\ th' = [th EXCEPT ![t] =
              IF userFile = << >>
              THEN Raised(@, "FileNotFoundError")
              ELSE [@ EXCEPT !.io = Bump(@, "uread"), !.recv = << >>,
                             !.user_data = NoData,
                             !.access_token = userFile[1].access_token,
                             !.games = << >>, !.nextToken = None,
                             !.pc = IF th[t].op \in {"get_library", "load"}
                                    THEN "sds" ELSE "profile"]]
  /\ UNCHANGED Globals

\* GET /user/profile and the return of get_profile_data / is_connected
Profile(t) ==
  /\ th[t].pc = "profile"
  /\ \E ok \in BOOLEAN :
       th' = [th EXCEPT ![t] =
                [@ EXCEPT !.pc = "done", !.io = Bump(@, "profile"),
                          !.sent = <<[access_token |-> th[t].access_token]>>,
                          !.ret = IF th[t].op = "is_connected"
                                  THEN (IF ok THEN "True" ELSE "False")
                                  ELSE (IF ok THEN "json" ELSE "None"),
                          !.note = IF ok THEN "profile_ok" ELSE "profile_failed"]]
  /\ UNCHANGED Globals

\* ------------------------------------------------------- entitlement sync
\* variant: the cache file is never consulted
GlCache_NoCache(t) ==
  /\ th[t].pc = "gl_cache"
  /\ th' = [th EXCEPT ![t] = [@ EXCEPT !.pc = "expired"]]
  /\ UNCHANGED Globals

\* get_library(): the cache test and the cached return
GlCache(t) ==
  /\ th[t].pc = "gl_cache"
  /\ th' = [th EXCEPT ![t] =
              IF cacheFile # << >>
              THEN GlReturn(@, "list", cacheFile[1], "cache_hit")
              ELSE [@ EXCEPT !.pc = "expired"]]
  /\ UNCHANGED Globals

\* variant: each page is put in front of the pages before it
Extend_Prepend(games, page) == page \o games

\* games.extend(json_data["entitlements"])
Extend(games, page) == games \o page

\* variant: a failed request ends the loop with what was fetched so far
SdsFailed_Partial(r) == GlReturn(r, "list", r.games, "transport_failed")

\* if not json_data: return  -- a failed request ends get_library with None
SdsFailed(r) == GlReturn(r, "None", << >>, "transport_failed")

\* the stored access token counts as expired at clock c
Stale(c) == userFile # << >> /\ is_token_expired(userFile[1], c) = "True"

\* variant: every request is built without a continuation token
get_sync_request_data_NoCursor(r) ==
  [nextToken |-> None, access_token |-> r.access_token]

\* get_sync_request_data and the x-amzn-token header of request_sds
get_sync_request_data(r) ==
  [nextToken |-> r.nextToken, access_token |-> r.access_token]

\* get_sync_request_data + request_sds for one page, then the loop body;
\* after the last page the cache file is written and the list returned.
RequestSds(t) ==
  /\ th[t].pc = "sds"
  /\ LET q == get_sync_request_data(th[t])
         req == [nextToken |-> q.nextToken, access_token |-> q.access_token,
                 stale |-> Stale(now), checked |-> th[t].checked]
         r == [th[t] EXCEPT !.io = Bump(@, "sds"), !.sent = <<req>>,
                            !.checked = FALSE] IN
     \/ /\ th' = [th EXCEPT ![t] = SdsFailed(r)]
        /\ UNCHANGED cacheFile
     \/ \E resp \in SdsResponses :
          /\ resp.entitlements \in catalog
          /\ (r.io.sds >= MaxPages => resp.nextToken = "absent")
          /\ LET games == Extend(r.games, resp.entitlements) IN
             IF resp.nextToken = "absent"
             THEN /\ cacheFile' = <<games>>
                  /\ th' = [th EXCEPT ![t] =
                              GlReturn([r EXCEPT !.games = games,
                                                 !.recv = <<[nextToken |-> resp.nextToken]>>,
                                                 !.served = Append(@, resp.entitlements),
                                                 !.io = Bump(@, "cwrite")],
                                       "list", games, "fetched")]
             ELSE /\ th' = [th EXCEPT ![t] =
                              [r EXCEPT !.games = games, !.nextToken = resp.nextToken,
                                        !.recv = <<[nextToken |-> resp.nextToken]>>,
                                        !.served = Append(@, resp.entitlements)]]
                  /\ UNCHANGED cacheFile
  /\ UNCHANGED <<userFile, is_loading, verifier, client_id, serial, now, catalog, urls>>

\* ------------------------------------------------------- load(), continued
RECURSIVE MapAll(_)
MapAll(gs) ==
  IF gs = << >> THEN << >>
  ELSE <<new_from_amazon_game(Head(gs))>> \o MapAll(Tail(gs))

RECURSIVE MapGood(_)
MapGood(gs) ==
  IF gs = << >> THEN << >>
  ELSE (IF Mappable(Head(gs)) THEN <<new_from_amazon_game(Head(gs))>> ELSE << >>)
       \o MapGood(Tail(gs))

\* variant: an entitlement that cannot be mapped is skipped
LoadMap_SkipBad(t) ==
  /\ th[t].pc = "map"
  /\ th' = [th EXCEPT ![t] =
              IF @.ret = "None"
              THEN Raised(@, "TypeError")
              ELSE LET m == MapGood(@.retval) IN
                   [@ EXCEPT !.mapped = m, !.ret = "list", !.retval = m,
                             !.sent = << >>, !.recv = << >>,
                             !.served = << >>,
                             !.pc = IF m = << >> THEN "ld_finish" ELSE "save"]]
  /\ UNCHANGED Globals

\* games = [AmazonGame.new_from_amazon_game(game) for game in self.get_library()]
LoadMap(t) ==
  /\ th[t].pc = "map"
  /\ th' = [th EXCEPT ![t] =
              IF @.ret = "None"
              THEN Raised(@, "TypeError")
              ELSE IF \E i \in 1..Len(@.retval) : ~Mappable(@.retval[i])
                   THEN Raised(@, "KeyError")
                   ELSE LET m == MapAll(@.retval) IN
                        [@ EXCEPT !.mapped = m, !.ret = "list", !.retval = m,
                                  !.sent = << >>, !.recv = << >>,
                                  !.served = << >>,
                                  !.pc = IF m = << >> THEN "ld_finish" ELSE "save"]]
  /\ UNCHANGED Globals

\* for game in games: game.save()  -- one save, which succeeds or raises
LoadSave(t) ==
  /\ th[t].pc = "save"
  /\ \/ th' = [th EXCEPT ![t] =
                 [@ EXCEPT !.io = Bump(@, "save"),
                           !.pc = IF th[t].io.save + 1 = Len(th[t].mapped)
                                  THEN "ld_finish" ELSE "save"]]
     \/ th' = [th EXCEPT ![t] = Raised(@, "SaveError")]
  /\ UNCHANGED Globals

\* self.is_loading = False; return games
LoadFinish(t) ==
  /\ th[t].pc = "ld_finish"
  /\ is_loading' = FALSE
  /\ th' = [th EXCEPT ![t] = [@ EXCEPT !.pc = "done"]]
  /\ UNCHANGED <<userFile, cacheFile, verifier, client_id, serial, now, catalog, urls>>

\* the caller takes the result; the thread is free for the next call
Finish(t) ==
  /\ th[t].pc = "done"
  /\ th' = [th EXCEPT ![t] = IdleThread]
  /\ UNCHANGED Globals

\* ------------------------------------------------------- specifications
LoadStep(t) ==
  \/ Load(t) \/ LoadSet(t) \/ GlCache(t) \/ IsTokenExpired(t) \/ Refresh(t)
  \/ LoadUser(t) \/ RequestSds(t) \/ LoadMap(t) \/ LoadSave(t) \/ LoadFinish(t)
  \/ Finish(t)

Step(t) ==
  \/ LoginUrl(t) \/ LoginCallback(t) \/ RegisterDevice(t) \/ LcStamp(t)
  \/ LcSave(t) \/ LcEmit(t) \/ IsConnected(t) \/ GetProfileData(t)
  \/ GetLibrary(t) \/ RefreshToken(t) \/ Profile(t) \/ LoadStep(t)

\* one caller at a time: the single-threaded model the service is written for
Next == Tick \/ Step("main")

Spec == Init /\ [][Next]_vars

\* Two threads call load() on an instance that a completed login has left
\* authenticated (the credential file as login_callback wrote it at clock 1).
InitThreads ==
  /\ \E resp \in RegResponses :
       /\ resp.refresh_token = "r0"
       /\ userFile = <<[resp EXCEPT !.token_obtain_time = Num(1)]>>
  /\ cacheFile = << >>
  /\ is_loading = FALSE
  /\ verifier = "v1"
  /\ client_id = generate_client_id(DeviceSerial)
  /\ serial = DeviceSerial
  /\ now = 1
  /\ catalog = ThreadsPages
  /\ urls = <<generate_challange("v1")>>
  /\ th = [t \in Threads |-> IdleThread]

NextThreads == Tick \/ \E t \in Threads : LoadStep(t)

SpecThreads == InitThreads /\ [][NextThreads]_vars
\* ------------------------------------------------------- properties
\* get_library has returned: to load() (pc "map") or to an outside caller
GlReturned(t) ==
  \/ th[t].pc = "map"
  \/ th[t].pc = "done" /\ th[t].op = "get_library"

RECURSIVE Flatten(_)
Flatten(ps) == IF ps = << >> THEN << >> ELSE Head(ps) \o Flatten(Tail(ps))

\* C1: when the cache file exists at the cache test of get_library(), the
\* call returns exactly the cached array in that step, has issued no
\* network request and read no credential file, and leaves the cache file
\* and the credential file as they were, whatever the stored token is.
C1_CacheHit ==
  [][\A t \in Threads :
       (th[t].pc = "gl_cache" /\ cacheFile # << >> /\ th'[t] # th[t])
       => /\ th'[t].pc \in {"done", "map"}
          /\ th'[t].ret = "list"
          /\ th'[t].retval = cacheFile[1]
          /\ th'[t].exc = "none"
          /\ th'[t].io = NoIO
          /\ cacheFile' = cacheFile
          /\ userFile' = userFile]_vars

\* a cached return while the stored access token is expired
C1_Witness ==
  /\ th["main"].note = "cache_hit"
  /\ GlReturned("main")
  /\ th["main"].retval = <<E1, E2, EBad>>
  /\ userFile # << >>
  /\ is_token_expired(userFile[1], now) = "True"

\* C2: a fetch without cache that is served N >= 1 pages without transport
\* failure returns the concatenation of the pages' entitlements in request
\* order, one request per page, and the cache file holds that same list.
C2_PagesConcatenated ==
  \A t \in Threads :
    (GlReturned(t) /\ th[t].note = "fetched")
    => /\ th[t].ret = "list"
       /\ th[t].retval = Flatten(th[t].served)
       /\ Len(th[t].served) = th[t].io.sds
       /\ th[t].io.sds >= 1
       /\ th[t].io.cwrite = 1
       /\ cacheFile = <<th[t].retval>>

\* a fetch of two different non-empty pages and an empty last page
C2_Witness ==
  /\ GlReturned("main")
  /\ th["main"].note = "fetched"
  /\ th["main"].served = << <<E1, E2>>, <<EBad>>, << >> >>
  /\ th["main"].retval = <<E1, E2, EBad>>

\* C3: a transport failure of the request of page k aborts the fetch: that
\* request is the last one, get_library() returns None, and no cache file is
\* created or written (pages 1..k-1 are dropped).
C3_FailureAborts ==
  \A t \in Threads :
    (GlReturned(t) /\ th[t].note = "transport_failed")
    => /\ th[t].ret = "None"
       /\ th[t].retval = << >>
       /\ th[t].io.sds = Len(th[t].served) + 1
       /\ th[t].io.cwrite = 0
       /\ cacheFile = << >>

\* page 1 was served with entitlements, the request of page 2 failed
C3_Witness ==
  /\ GlReturned("main")
  /\ th["main"].note = "transport_failed"
  /\ th["main"].served = << <<E1, E2>> >>
  /\ th["main"].io.sds = 2
  /\ cacheFile = << >>

\* C4: a load() call made while is_loading is true returns at once: no
\* network request, no credential or cache access, no game record saved,
\* is_loading unchanged.
C4_ReentrantLoadReturns ==
  [][\A t \in Threads :
       (th[t].pc = "idle" /\ th'[t].op = "load" /\ is_loading)
       => /\ th'[t].pc = "done"
          /\ th'[t].ret = "None"
          /\ th'[t].exc = "none"
          /\ th'[t].io = NoIO
          /\ is_loading' = is_loading
          /\ cacheFile' = cacheFile
          /\ userFile' = userFile]_vars

\* the second call has returned while the first is still fetching
C4_Witness ==
  /\ th["worker"].op = "load"
  /\ th["worker"].pc = "done"
  /\ th["worker"].note = "already_loading"
  /\ th["main"].op = "load"
  /\ th["main"].pc = "sds"
  /\ th["main"].io.sds = 1
  /\ is_loading
\* C5: is_token_expired() returns false when token_obtain_time or expires_in
\* is absent from the stored credentials, and otherwise returns true exactly
\* when now > token_obtain_time + expires_in.
\* (outcome of the step: True continues at "refresh", False at "load_user")
C5_ExpiryAsSpecified ==
  [][\A t \in Threads :
       (th[t].pc = "expired" /\ th'[t] # th[t] /\ userFile # << >>)
       => LET ud == userFile[1]
              missing == ud.token_obtain_time.tag # "int" \/ ud.expires_in.tag # "int"
              returnsTrue == th'[t].pc = "refresh"
              returnsFalse == th'[t].pc = "load_user"
          IN  IF missing
              THEN returnsFalse
              ELSE /\ returnsTrue \/ returnsFalse
                   /\ returnsTrue <=> now > ud.token_obtain_time.n + ud.expires_in.n]_vars

\* load() is between its guards and its return
LoadRunning(t) == th[t].op = "load" /\ th[t].pc # "done"

\* C6: a load() call that has set is_loading resets it to false in the step
\* in which it returns, whatever happened in between; so whenever no load()
\* is executing, is_loading is false.
C6_FlagCleared ==
  /\ []((\A t \in Threads : ~LoadRunning(t)) => ~is_loading)
  /\ [][\A t \in Threads :
          (LoadRunning(t) /\ th'[t].pc = "done") => ~is_loading']_vars

\* a load() that ended on a failed save after one record was saved
C6_Witness ==
  /\ th["main"].op = "load"
  /\ th["main"].pc = "done"
  /\ th["main"].note = "SaveError"
  /\ th["main"].io.save = 1
  /\ th["worker"].pc = "idle"
  /\ ~is_loading

Failures == {"TypeError", "KeyError", "SaveError", "FileNotFoundError"}

\* C7: past its guards, load() never ends with an exception: a failure in
\* the fetch, the mapping or a save makes it return None.
C7_LoadNeverRaises ==
  \A t \in Threads :
    th[t].op = "load"
    => /\ th[t].exc = "none"
       /\ (th[t].pc = "done" /\ th[t].note \in Failures)
          => (th[t].ret = "None" /\ th[t].retval = << >>)
       /\ (th[t].pc = "done") => th[t].ret \in {"None", "list"}

\* get_library returned None after a transport failure on page 2
C7_Witness ==
  /\ th["main"].op = "load"
  /\ th["main"].pc = "done"
  /\ th["main"].note = "TypeError"
  /\ th["main"].io.sds = 2
  /\ th["main"].ret = "None"

\* C8: login_callback writes the credential file and emits service-login
\* only with an authorization code and a successful registration; without
\* a code it sends no request; without a code or after a failed
\* registration request it writes nothing, emits nothing and raises nothing.
C8_LoginOnlyOnSuccess ==
  /\ [](\A t \in Threads :
          th[t].op = "login_callback"
          => /\ (th[t].io.uwrite > 0 \/ th[t].io.emit > 0)
                => /\ th[t].code \in Codes
                   /\ th[t].io.register = 1
                   /\ th[t].note # "register_failed"
                   /\ [th[t].user_data EXCEPT !.token_obtain_time = Absent]
                        \in RegResponses
             /\ th[t].code = NoCode
                => /\ th[t].pc = "done"
                   /\ th[t].io = NoIO
                   /\ th[t].exc = "none"
             /\ th[t].note = "register_failed"
                => /\ th[t].pc = "done"
                   /\ th[t].io = Bump(NoIO, "register")
                   /\ th[t].exc = "none")
  /\ [][\A t \in Threads :
          (th[t].op = "login_callback" /\ userFile' # userFile)
          => th[t].pc = "lc_save"]_vars

\* a failed registration that left the file of an earlier login in place
C8_Witness ==
  /\ th["main"].op = "login_callback"
  /\ th["main"].pc = "done"
  /\ th["main"].note = "register_failed"
  /\ userFile # << >>

\* C9: on a successful login_callback the registration answer comes first,
\* then the stamp with the current time, then the save, then the signal:
\* when service-login is emitted the credential file holds the registration's
\* tokens with a token_obtain_time, and no credential set is ever stored
\* without token_obtain_time.
C9_StampSaveEmit ==
  /\ \A t \in Threads :
       th[t].op = "login_callback"
       => /\ th[t].pc = "lc_stamp"
             => (th[t].io.register = 1 /\ th[t].io.uwrite = 0 /\ th[t].io.emit = 0)
          /\ (th[t].pc \in {"lc_save", "lc_emit"} \/ th[t].io.uwrite > 0)
             => /\ th[t].user_data.token_obtain_time.tag = "int"
                /\ th[t].user_data.token_obtain_time.n <= now
                /\ [th[t].user_data EXCEPT !.token_obtain_time = Absent]
                     \in RegResponses
                /\ th[t].io.register = 1
          /\ th[t].pc = "lc_save" => (th[t].io.uwrite = 0 /\ th[t].io.emit = 0)
          /\ th[t].pc = "lc_emit" => (th[t].io.uwrite = 1 /\ th[t].io.emit = 0)
          /\ th[t].io.uwrite > 0 => userFile = <<th[t].user_data>>
          /\ th[t].io.emit > 0 => th[t].io.uwrite = 1
  /\ userFile # << >> => userFile[1].token_obtain_time.tag = "int"

\* service-login emitted after a login at clock 2
C9_Witness ==
  /\ th["main"].op = "login_callback"
  /\ th["main"].note = "logged_in"
  /\ th["main"].io.emit = 1
  /\ userFile # << >>
  /\ userFile[1].token_obtain_time = Num(2)
  /\ userFile[1].refresh_token = "r1"

\* C10: a successful refresh_token() stores the answer's access_token and
\* expires_in and the current time as token_obtain_time, and changes no
\* other field; the stored refresh_token changes only when a login saves a
\* new registration.
C10_RefreshChangesThreeFields ==
  /\ [][\A t \in Threads :
          (th[t].pc = "refresh" /\ th'[t].note = "refreshed")
          => /\ userFile # << >>
             /\ userFile' # << >>
             /\ Len(th'[t].recv) = 1
             /\ userFile'[1].access_token = th'[t].recv[1].access_token
             /\ userFile'[1].expires_in = th'[t].recv[1].expires_in
             /\ userFile'[1].token_obtain_time = Num(now)
             /\ userFile'[1].refresh_token = userFile[1].refresh_token
             /\ userFile'[1].serial = userFile[1].serial]_vars
  /\ [][(userFile # << >> /\ userFile' # << >>
          /\ userFile'[1].refresh_token # userFile[1].refresh_token)
         => \E t \in Threads : th[t].pc = "lc_save"]_vars

\* a refresh at clock 3 of credentials registered with refresh token r1
C10_Witness ==
  /\ th["main"].note = "refreshed"
  /\ th["main"].recv # << >>
  /\ userFile # << >>
  /\ userFile[1].access_token = "a1"
  /\ userFile[1].refresh_token = "r1"
  /\ userFile[1].token_obtain_time = Num(3)

\* the token request of this operation was sent and failed
RefreshFailed(t) == th[t].io.token = 1 /\ th[t].io.uwrite = 0

\* C11: when the token request of refresh_token() fails, the credential
\* file stays as it was, nothing is raised, and the calling get_library or
\* get_profile_data goes on to send its request with the stored (old)
\* access token.
C11_FailedRefreshGoesOn ==
  /\ [][\A t \in Threads :
          (th[t].pc = "refresh" /\ th'[t].io.token = th[t].io.token + 1
           /\ th'[t].io.uwrite = th[t].io.uwrite)
          => /\ userFile' = userFile
             /\ th'[t].exc = "none"
             /\ th'[t].note = "refresh_failed"
             /\ IF th[t].op = "refresh_token"
                THEN th'[t].pc = "done" /\ th'[t].ret = "None"
                ELSE th'[t].pc = "load_user"]_vars
  /\ [][\A t \in Threads :
          (RefreshFailed(t) /\ th[t].pc = "load_user" /\ th'[t] # th[t])
          => /\ th'[t].pc = IF th[t].op \in {"get_library", "load"}
                            THEN "sds" ELSE "profile"
             /\ th'[t].access_token = userFile[1].access_token
             /\ userFile' = userFile]_vars
  /\ [][\A t \in Threads :
          (RefreshFailed(t) /\ th[t].pc \in {"sds", "profile"}
           /\ th[t].sent = << >> /\ th'[t] # th[t])
          => /\ th'[t].sent # << >>
             /\ th'[t].sent[1].access_token = userFile[1].access_token
             /\ th'[t].io.sds + th'[t].io.profile = 1
             /\ userFile' = userFile]_vars

\* after a failed refresh the first sync request went out with the expired
\* token a0
C11_Witness ==
  /\ th["main"].pc = "sds"
  /\ RefreshFailed("main")
  /\ th["main"].io.sds = 1
  /\ th["main"].sent # << >>
  /\ th["main"].sent[1].access_token = "a0"
  /\ th["main"].sent[1].stale
  /\ userFile[1].access_token = "a0"

\* C12: the request of every page is preceded by an expiry check of its
\* own (with a refresh if expired), so, unless the refresh request failed,
\* no sync request is sent with an access token that is expired when the
\* request is issued.
C12_CheckedBeforeEachPage ==
  \A t \in Threads :
    (th[t].op \in {"get_library", "load"} /\ th[t].sent # << >>
     /\ ~RefreshFailed(t))
    => /\ th[t].sent[1].checked
       /\ ~th[t].sent[1].stale

\* C13: is_connected() returns True exactly when credentials exist and the
\* profile request succeeds; without credentials it returns False and
\* sends nothing; with credentials every call sends one profile request.
C13_ConnectedIffProfile ==
  \A t \in Threads :
    (th[t].op = "is_connected" /\ th[t].pc = "done")
    => IF th[t].note = "not_authenticated"
       THEN th[t].ret = "False" /\ th[t].io = NoIO
       ELSE /\ th[t].io.profile = 1
            /\ th[t].ret \in {"True", "False"}
            /\ th[t].ret = "True" <=> th[t].note = "profile_ok"

\* C14: no public operation ends with an exception reaching its caller.
C14_NothingRaised ==
  \A t \in Threads : th[t].exc = "none"

\* the authorization code the sign-in page hands out for a login URL
CodeOf(challenge) ==
  IF challenge = generate_challange("v1") THEN "c1" ELSE "c2"

\* C15: every build of the login URL sets a fresh verifier (and the serial
\* and client id) on the instance, and device registration sends the
\* verifier and client id of the most recent build: the verifier sent
\* always matches the challenge of the last URL built, whichever URL the
\* authorization code came from.
C15_LastVerifierSent ==
  /\ [](verifier # None
        => /\ urls # << >>
           /\ urls[Len(urls)] = generate_challange(verifier)
           /\ serial = DeviceSerial
           /\ client_id = generate_client_id(serial))
  /\ [](\A t \in Threads :
          (th[t].op = "login_callback" /\ th[t].sent # << >>)
          => /\ generate_challange(th[t].sent[1].code_verifier) = urls[Len(urls)]
             /\ th[t].sent[1].client_id = client_id
             /\ th[t].sent[1].device_serial = serial
             /\ th[t].sent[1].authorization_code = th[t].code)
  /\ [][urls' # urls
        => /\ verifier' # verifier
           /\ verifier' \in Verifiers
           /\ urls'[Len(urls')] = generate_challange(verifier')]_vars

\* two URLs were built; the code of the first was registered with the
\* verifier of the second
C15_Witness ==
  /\ Len(urls) = 2
  /\ urls[1] # urls[2]
  /\ th["main"].op = "login_callback"
  /\ th["main"].io.register = 1
  /\ th["main"].sent # << >>
  /\ th["main"].sent[1].authorization_code = CodeOf(urls[1])
  /\ generate_challange(th["main"].sent[1].code_verifier) = urls[2]

\* C16: the first sync request of a fetch carries no continuation token,
\* every later one carries the nextToken of the response just before it;
\* the loop goes on exactly while the response carries a nextToken and ends
\* with the first response without one (one request per page served) or
\* with the first failed request.
C16_CursorProtocol ==
  [][\A t \in Threads :
       (th[t].pc = "sds" /\ th'[t] # th[t])
       => /\ th'[t].io.sds = th[t].io.sds + 1
          /\ th'[t].sent # << >>
          /\ th'[t].sent[1].nextToken =
               (IF th[t].io.sds = 0 THEN None ELSE th[t].recv[1].nextToken)
          /\ IF Len(th'[t].served) = Len(th[t].served) + 1
             THEN /\ th'[t].pc = "sds" <=> th'[t].recv[1].nextToken \in NextTokens
                  /\ th'[t].pc # "sds"
                     => /\ th'[t].pc \in {"map", "done"}
                        /\ th'[t].note = "fetched"
                        /\ th'[t].recv[1].nextToken = "absent"
                        /\ th'[t].io.sds = Len(th'[t].served)
             ELSE /\ th'[t].served = th[t].served
                  /\ th'[t].pc \in {"map", "done"}
                  /\ th'[t].note = "transport_failed"]_vars

\* the second request carried the token n1 of the first response and was
\* answered with n2
C16_Witness ==
  /\ th["main"].pc = "sds"
  /\ th["main"].io.sds = 2
  /\ th["main"].sent[1].nextToken = "n1"
  /\ th["main"].recv[1].nextToken = "n2"
  /\ th["main"].nextToken = "n2"

\* both fields set and the clock past token_obtain_time + expires_in
ExpiredAt(ud, c) ==
  /\ ud.token_obtain_time.tag = "int" /\ ud.token_obtain_time.n # 0
  /\ ud.expires_in.tag = "int" /\ ud.expires_in.n # 0
  /\ c > ud.token_obtain_time.n + ud.expires_in.n

Checking == {"get_library", "get_profile_data", "is_connected", "load"}

\* C17: get_library() and get_profile_data() (also when called by load() and
\* is_connected()) turn to refresh_token() only from an expiry check that
\* found both fields set and the clock past their sum; a token request is
\* sent only from there, and at most once per operation.
C17_RefreshOnlyWhenExpired ==
  /\ [](\A t \in Threads : th[t].op \in Checking => th[t].io.token <= 1)
  /\ [][\A t \in Threads :
          th'[t].op \in Checking
          => /\ (th[t].pc = "expired" /\ th'[t] # th[t] /\ userFile # << >>)
                => (th'[t].pc = "refresh" <=> ExpiredAt(userFile[1], now))
             /\ (th'[t].pc = "refresh" /\ th[t].pc # "refresh")
                => (th[t].pc = "expired" /\ userFile # << >>)
             /\ th'[t].io.token > th[t].io.token
                => /\ th[t].pc = "refresh"
                   /\ th[t].io.token = 0
                   /\ th'[t].io.token = 1]_vars

\* get_profile_data() found the token expired, refreshed it once and went on
C17_Witness ==
  /\ th["main"].op = "get_profile_data"
  /\ th["main"].pc = "profile"
  /\ th["main"].note = "refreshed"
  /\ th["main"].io.token = 1

\* C18: the guard of load() is check-then-set: the step that tests
\* is_loading (and finds it false on an authenticated instance) lets the call
\* in without setting the flag, which a later step sets; and the return of
\* one load() sets the flag to false whether or not another thread is still
\* loading.  So two interleaved calls both get in and fetch at the same time.
C18_CheckThenSet ==
  [][\A t \in Threads :
       /\ (th[t].pc = "idle" /\ th'[t].op = "load" /\ ~is_loading /\ is_authenticated)
          => /\ th'[t].pc = "ld_set"
             /\ is_loading' = FALSE
       /\ (th[t].pc = "ld_set" /\ th'[t] # th[t])
          => /\ is_loading'
             /\ th'[t].pc = "gl_cache"
       /\ (th[t].pc = "ld_finish" /\ th'[t] # th[t])
          => /\ ~is_loading'
             /\ \A u \in Threads \ {t} : th'[u] = th[u]]_vars

\* both calls got in and fetched from the server (the cache was still
\* missing for each); main has returned its list and cleared the flag while
\* worker is still fetching
C18_Witness ==
  /\ th["main"].op = "load"
  /\ th["main"].pc = "done"
  /\ th["main"].ret = "list"
  /\ th["main"].io.sds >= 1
  /\ th["worker"].op = "load"
  /\ th["worker"].pc = "sds"
  /\ th["worker"].io.sds >= 1
  /\ ~is_loading

\* C19: load() on an instance without local credentials returns None in the
\* very step of the call: no request, no file read or written, no game
\* record saved, is_loading false afterwards.
C19_UnauthenticatedLoadReturns ==
  /\ [](\A t \in Threads :
          (th[t].op = "load" /\ th[t].note = "not_authenticated")
          => (th[t].pc = "done" /\ th[t].io = NoIO /\ th[t].ret = "None"))
  /\ [][\A t \in Threads :
          (th[t].pc = "idle" /\ th'[t].op = "load" /\ ~is_authenticated)
          => /\ th'[t].pc = "done"
             /\ th'[t].ret = "None"
             /\ th'[t].retval = << >>
             /\ th'[t].exc = "none"
             /\ th'[t].io = NoIO
             /\ ~is_loading'
             /\ cacheFile' = cacheFile
             /\ userFile' = userFile]_vars

\* load() has returned on an instance that was never logged in
C19_Witness ==
  /\ th["main"].op = "load"
  /\ th["main"].pc = "done"
  /\ th["main"].note = "not_authenticated"
  /\ userFile = << >>
  /\ ~is_loading

BeforeSave == {"ld_set", "gl_cache", "expired", "refresh", "load_user", "sds", "map"}

\* C20: load() saves game records only once get_library() has returned the
\* whole list and every entitlement of it has been mapped; a load() that got
\* no list or failed to map an entitlement has saved nothing; a load() that
\* returns None after saving something failed in a save, with a proper
\* prefix of the records saved; a load() that returns its list saved them all.
C20_SaveAfterWholeListMapped ==
  /\ [](\A t \in Threads :
          th[t].op = "load"
          => /\ th[t].pc \in BeforeSave => th[t].io.save = 0
             /\ th[t].note \in {"TypeError", "KeyError", "FileNotFoundError",
                                "transport_failed", "not_authenticated",
                                "already_loading"}
                => th[t].io.save = 0
             /\ th[t].pc = "save"
                => /\ cacheFile # << >>
                   /\ \A i \in 1..Len(cacheFile[1]) : Mappable(cacheFile[1][i])
                   /\ th[t].mapped = MapAll(cacheFile[1])
                   /\ th[t].io.save < Len(th[t].mapped)
             /\ (th[t].pc \in {"ld_finish", "done"} /\ th[t].ret = "None"
                    /\ th[t].io.save > 0)
                => /\ th[t].note = "SaveError"
                   /\ cacheFile # << >>
                   /\ th[t].io.save < Len(cacheFile[1])
             /\ (th[t].pc \in {"ld_finish", "done"} /\ th[t].ret = "list")
                => th[t].io.save = Len(th[t].retval))
  /\ [][\A t \in Threads :
          (th[t].op = "load" /\ th'[t].op = "load"
             /\ th'[t].io.save # th[t].io.save)
          => /\ th[t].pc = "save"
             /\ th'[t].io.save = th[t].io.save + 1]_vars

\* the list was obtained, its first entitlements can be mapped and a later
\* one cannot: load() has returned None and nothing was saved
C20_Witness ==
  /\ th["main"].op = "load"
  /\ th["main"].pc = "done"
  /\ th["main"].ret = "None"
  /\ th["main"].note = "KeyError"
  /\ th["main"].io.save = 0
  /\ cacheFile # << >>
  /\ Len(cacheFile[1]) = 3
  /\ Mappable(cacheFile[1][1])
  /\ ~Mappable(cacheFile[1][3])
====
